---- MODULE Spec2Model ----
(***************************************************************************)
(* tsc-baseline: the diagnostic ingestion-and-diff engine of util.ts.      *)
(*                                                                         *)
(* Strings are sequences of one-character strings, so that the regular     *)
(* expression of parseTypeScriptErrors, split('\n') and parseInt are       *)
(* computed character by character.  A Map<string, T> is a function whose  *)
(* DOMAIN is the key set.  An optional field (message?) is a record field  *)
(* that is present or absent.                                              *)
(***************************************************************************)
EXTENDS Integers, Sequences, FiniteSets, TLC

VARIABLES
    pc,             \* position of the driver of the specification at hand
    oldErrors,      \* getNewErrors: first argument
    newErrors,      \* getNewErrors: second argument
    result,         \* getNewErrors: returned map
    errorLog,       \* parseTypeScriptErrors: the blob of the first run
    ignoreMessages, \* ErrorOptions.ignoreMessages
    parsed,         \* ParsingResult of errorLog
    newLog,         \* the blob of the second run
    newParsed,      \* ParsingResult of newLog
    summaryMap,     \* writeTypeScriptErrorsToFile: the map to write
    disk,           \* the file at the baseline path
    baselineFile,   \* the object readBaselineErrorsFile returned
    readMap,        \* getErrorSummaryMap of baselineFile
    version,        \* getBaselineFileVersion of baselineFile
    isCurrent,      \* isBaselineVersionCurrent of baselineFile
    diskBefore,     \* history: the file before the last operation on it
    observed,       \* what a concurrent reader of the baseline path got
    invocation,     \* the command line and standard input of the running process
    stdout,         \* what the process wrote with console.log
    stderr,         \* what the process wrote with console.error, or died with
    exitCode,       \* the exit status of the process
    report,         \* what check computed and reported
    saved,          \* history: the log and mode the file was saved from
    script,         \* history: the steps of a check, add, check session
    runs,           \* history: how often the process called its action
    gitlab,         \* formatForGitLab of a delta
    humanText,      \* toHumanReadableText of a delta
    total           \* getTotalErrorsCount of a delta

diffVars == <<oldErrors, newErrors, result>>

logVars == <<errorLog, parsed, newLog, newParsed>>

storeVars ==
    <<summaryMap, disk, baselineFile, readMap, version, isCurrent, diskBefore,
      observed>>

cliVars ==
    <<invocation, stdout, stderr, exitCode, report, saved, script, runs>>

formatVars == <<gitlab, humanText, total>>

vars ==
    <<pc, ignoreMessages, diffVars, logVars, storeVars, cliVars, formatVars>>

----------------------------------------------------------------------------
(* Bounds *)

MaxCount == 5
MaxLines == 3
MaxRunLines == 2

----------------------------------------------------------------------------
(* Maps *)

EmptyMap == [k \in {} |-> k]

Has(m, k) == k \in DOMAIN m

MapSet(m, k, v) == [x \in (DOMAIN m) \cup {k} |-> IF x = k THEN v ELSE m[x]]

HasMessage(e) == "message" \in DOMAIN e

----------------------------------------------------------------------------
(* getNewErrors *)

\* a variant that reports one occurrence of a summary absent from old
getNewErrors_oneOfAbsent(old, new) ==
    LET ids == {id \in DOMAIN new :
                   \/ ~Has(old, id)
                   \/ old[id].count < new[id].count}
    IN  [id \in ids |->
            IF ~Has(old, id)
            THEN [new[id] EXCEPT !.count = 1]
            ELSE [new[id] EXCEPT !.count = new[id].count - old[id].count]]

\* a variant that spreads the old summary instead of the new one
getNewErrors_spreadOld(old, new) ==
    LET ids == {id \in DOMAIN new :
                   \/ ~Has(old, id)
                   \/ old[id].count < new[id].count}
    IN  [id \in ids |->
            IF ~Has(old, id)
            THEN new[id]
            ELSE [old[id] EXCEPT !.count = new[id].count - old[id].count]]

\* a variant whose comparison is <= instead of <
getNewErrors_leq(old, new) ==
    LET ids == {id \in DOMAIN new :
                   \/ ~Has(old, id)
                   \/ old[id].count <= new[id].count}
    IN  [id \in ids |->
            IF ~Has(old, id)
            THEN new[id]
            ELSE [new[id] EXCEPT !.count = new[id].count - old[id].count]]

\* a variant that also walks the old map
getNewErrors_walkOld(old, new) ==
    LET ids == {id \in (DOMAIN new) \cup (DOMAIN old) :
                   \/ ~Has(old, id)
                   \/ ~Has(new, id)
                   \/ old[id].count < new[id].count}
    IN  [id \in ids |->
            IF ~Has(old, id) THEN new[id]
            ELSE IF ~Has(new, id) THEN old[id]
            ELSE [new[id] EXCEPT !.count = new[id].count - old[id].count]]

getNewErrors(old, new) ==
    LET ids == {id \in DOMAIN new :
                   \/ ~Has(old, id)
                   \/ old[id].count < new[id].count}
    IN  [id \in ids |->
            IF ~Has(old, id)
            THEN new[id]
            ELSE [new[id] EXCEPT !.count = new[id].count - old[id].count]]

----------------------------------------------------------------------------
(* Characters.  \d, \w and . are the classes of the JavaScript regular    *)
(* expression; . excludes the line terminators.                            *)

Digits == {"0", "1", "2", "3", "4", "5", "6", "7", "8", "9"}

Letters ==
    {"a", "b", "c", "d", "e", "f", "g", "h", "i", "j", "k", "l", "m",
     "n", "o", "p", "q", "r", "s", "t", "u", "v", "w", "x", "y", "z",
     "A", "B", "C", "D", "E", "F", "G", "H", "I", "J", "K", "L", "M",
     "N", "O", "P", "Q", "R", "S", "T", "U", "V", "W", "X", "Y", "Z"}

WordChars == Digits \cup Letters \cup {"_"}

LineTerminators == {"\n", "\r"}

Dot(c) == c \notin LineTerminators

DigitValue(c) ==
    CASE c = "0" -> 0 [] c = "1" -> 1 [] c = "2" -> 2 [] c = "3" -> 3
      [] c = "4" -> 4 [] c = "5" -> 5 [] c = "6" -> 6 [] c = "7" -> 7
      [] c = "8" -> 8 [] c = "9" -> 9

\* parseInt of a string of decimal digits
RECURSIVE parseInt(_)
parseInt(str) ==
    IF Len(str) = 0 THEN 0
    ELSE 10 * parseInt(SubSeq(str, 1, Len(str) - 1)) + DigitValue(str[Len(str)])

\* String.prototype.split('\n')
RECURSIVE split(_)
split(str) ==
    IF \A i \in 1..Len(str) : str[i] # "\n"
    THEN <<str>>
    ELSE LET i == CHOOSE k \in 1..Len(str) :
                      /\ str[k] = "\n"
                      /\ \A j \in 1..(k - 1) : str[j] # "\n"
         IN  <<SubSeq(str, 1, i - 1)>> \o split(SubSeq(str, i + 1, Len(str)))

----------------------------------------------------------------------------
(* errorPattern = /^(.+)\((\d+),(\d+)\): error (\w+): (.+)$/               *)

\* the first index from i on whose character is outside Class (Len + 1 if none)
RunEnd(s, i, Class) ==
    IF i > Len(s) THEN i
    ELSE CHOOSE j \in i..(Len(s) + 1) :
             /\ \A k \in i..(j - 1) : s[k] \in Class
             /\ (j = Len(s) + 1 \/ s[j] \notin Class)

ErrorLiteral == <<")", ":", " ", "e", "r", "r", "o", "r", " ">>

\* The rest of the pattern from the \( at index p on.  \d+ and \w+ end at
\* the first character outside their class, since the literal that follows
\* each of them starts with such a character.
TailFrom(s, p) ==
    LET q == RunEnd(s, p + 1, Digits)
        r == RunEnd(s, q + 1, Digits)
        w == r + Len(ErrorLiteral)
        t == RunEnd(s, w, WordChars)
    IN  [ok |-> /\ s[p] = "("
                /\ q > p + 1 /\ q <= Len(s) /\ s[q] = ","
                /\ r > q + 1 /\ w - 1 <= Len(s)
                /\ SubSeq(s, r, w - 1) = ErrorLiteral
                /\ t > w /\ t + 2 <= Len(s)
                /\ s[t] = ":" /\ s[t + 1] = " "
                /\ \A k \in (t + 2)..Len(s) : Dot(s[k]),
         q |-> q, r |-> r, w |-> w, t |-> t]

\* the indices at which group 1 may end: (.+) is non-empty and holds no
\* line terminator, and the rest of the pattern matches up to the end
GroupOneEnds(s) ==
    {p \in 2..Len(s) :
        /\ s[p] = "("
        /\ \A k \in 1..(p - 1) : Dot(s[k])
        /\ TailFrom(s, p).ok}

\* (.+) is greedy: the engine tries the longest group 1 first
errorPatternSplit(s) ==
    LET ends == GroupOneEnds(s)
    IN  CHOOSE p \in ends : \A o \in ends : o <= p

\* line.match(errorPattern) is not null
Matches(s) == GroupOneEnds(s) # {}

\* the groups [, file, lineStr, columnStr, code, message] of the match
MatchGroups(s) ==
    LET p == errorPatternSplit(s)
        m == TailFrom(s, p)
    IN  [file |-> SubSeq(s, 1, p - 1),
         lineStr |-> SubSeq(s, p + 1, m.q - 1),
         columnStr |-> SubSeq(s, m.q + 1, m.r - 1),
         code |-> SubSeq(s, m.w, m.t - 1),
         message |-> SubSeq(s, m.t + 2, Len(s))]

----------------------------------------------------------------------------
(* getErrorSummaryHash.  objectHash serialises the object with its keys    *)
(* sorted and every string prefixed by its length, and digests the text;   *)
(* the digest is taken to be collision free and is modelled by the text.   *)

HashString(str) == <<ToString(Len(str))>> \o str

objectHash(obj) ==
    LET code == <<"code">> \o HashString(obj.code)
        file == <<"file">> \o HashString(obj.file)
    IN  IF "message" \in DOMAIN obj
        THEN code \o file \o <<"message">> \o HashString(obj.message)
        ELSE code \o file

\* a variant that hashes the whole summary but its count (line included)
getErrorSummaryHash_rest(errorSummary, ignore) ==
    objectHash([code |-> errorSummary.code, file |-> errorSummary.file])
        \o <<"line", ToString(errorSummary.line)>>
        \o (IF HasMessage(errorSummary)
            THEN <<"message">> \o HashString(errorSummary.message)
            ELSE <<>>)

\* a variant that never hashes the message
getErrorSummaryHash_noMessage(errorSummary, ignore) ==
    objectHash([code |-> errorSummary.code, file |-> errorSummary.file])

getErrorSummaryHash(errorSummary, ignore) ==
    IF ignore
    THEN objectHash([code |-> errorSummary.code, file |-> errorSummary.file])
    ELSE objectHash([code |-> errorSummary.code, file |-> errorSummary.file,
                     message |-> errorSummary.message])

----------------------------------------------------------------------------
(* getTotalErrorsCount *)

RECURSIVE reduceCounts(_, _)
reduceCounts(errorMap, keys) ==
    IF keys = {} THEN 0
    ELSE LET k == CHOOSE k \in keys : TRUE
         IN  errorMap[k].count + reduceCounts(errorMap, keys \ {k})

\* a variant that counts the summaries
getTotalErrorsCount_size(errorMap) == Cardinality(DOMAIN errorMap)

getTotalErrorsCount(errorMap) == reduceCounts(errorMap, DOMAIN errorMap)

----------------------------------------------------------------------------
(* parseTypeScriptErrors *)

\* a variant that keeps the last occurrence of a file alone
addSpecificErrorToMap_last(specificErrorsMap, filePathName, error) ==
    MapSet(specificErrorsMap, filePathName, <<error>>)

addSpecificErrorToMap(specificErrorsMap, filePathName, error) ==
    IF Has(specificErrorsMap, filePathName)
    THEN MapSet(specificErrorsMap, filePathName,
                Append(specificErrorsMap[filePathName], error))
    ELSE MapSet(specificErrorsMap, filePathName, <<error>>)

\* the summary built from one occurrence, before the lookup
NewSummary(error, ignore) ==
    IF ignore
    THEN [file |-> error.file, code |-> error.code, line |-> error.line,
          count |-> 1]
    ELSE [file |-> error.file, code |-> error.code, line |-> error.line,
          count |-> 1, message |-> error.message]

\* a variant that keeps the line of the occurrence at hand
addErrorToSummary_lastLine(errorSummaryMap, error, ignore) ==
    LET errorSummary == NewSummary(error, ignore)
        key == getErrorSummaryHash(errorSummary, ignore)
    IN  IF Has(errorSummaryMap, key)
        THEN MapSet(errorSummaryMap, key,
                    [errorSummary EXCEPT
                        !.count = errorSummaryMap[key].count + 1])
        ELSE MapSet(errorSummaryMap, key, errorSummary)

\* a variant that stores the fresh summary without counting
addErrorToSummary_noCount(errorSummaryMap, error, ignore) ==
    LET errorSummary == NewSummary(error, ignore)
        key == getErrorSummaryHash(errorSummary, ignore)
    IN  MapSet(errorSummaryMap, key, errorSummary)

addErrorToSummary(errorSummaryMap, error, ignore) ==
    LET errorSummary == NewSummary(error, ignore)
        key == getErrorSummaryHash(errorSummary, ignore)
    IN  IF Has(errorSummaryMap, key)
        THEN MapSet(errorSummaryMap, key,
                    [errorSummaryMap[key] EXCEPT
                        !.count = errorSummaryMap[key].count + 1])
        ELSE MapSet(errorSummaryMap, key, errorSummary)

\* the SpecificError of a matching line
SpecificErrorOf(line) ==
    LET g == MatchGroups(line)
    IN  [file |-> g.file, code |-> g.code, message |-> g.message,
         line |-> parseInt(g.lineStr), column |-> parseInt(g.columnStr)]

\* a variant of the loop body without the `if (match)` guard: a line that
\* does not match is recorded under itself
parseLine_noGuard(acc, line, ignore) ==
    LET error == IF Matches(line) THEN SpecificErrorOf(line)
                 ELSE [file |-> line, code |-> <<>>, message |-> <<>>,
                       line |-> 0, column |-> 0]
    IN  [specificErrorsMap |->
             addSpecificErrorToMap(acc.specificErrorsMap, error.file, error),
         errorSummaryMap |->
             addErrorToSummary(acc.errorSummaryMap, error, ignore)]

\* the body of the loop over the lines
parseLine(acc, line, ignore) ==
    IF Matches(line)
    THEN LET error == SpecificErrorOf(line)
         IN  [specificErrorsMap |->
                  addSpecificErrorToMap(acc.specificErrorsMap, error.file,
                                        error),
              errorSummaryMap |->
                  addErrorToSummary(acc.errorSummaryMap, error, ignore)]
    ELSE acc

NoResult == [specificErrorsMap |-> EmptyMap, errorSummaryMap |-> EmptyMap]

RECURSIVE parseLines(_, _, _)
parseLines(acc, lines, ignore) ==
    IF lines = <<>> THEN acc
    ELSE parseLines(parseLine(acc, Head(lines), ignore), Tail(lines), ignore)

parseTypeScriptErrors(log, ignore) == parseLines(NoResult, split(log), ignore)

----------------------------------------------------------------------------
(* The baseline document store *)

CURRENT_BASELINE_VERSION == 1

NoFile == [exists |-> FALSE]

FileWith(text) == [exists |-> TRUE, text |-> text]

NoDocument == [undefined |-> TRUE]

\* JSON text is a tree of tagged values: [str |-> s], [num |-> n],
\* [bool |-> b] and [obj |-> members], members a function of the keys.

\* JSON.stringify of an ErrorSummary: a property that is undefined is left out
stringifySummary(e) ==
    IF HasMessage(e)
    THEN [obj |-> [file |-> [str |-> e.file], code |-> [str |-> e.code],
                   line |-> [num |-> e.line], count |-> [num |-> e.count],
                   message |-> [str |-> e.message]]]
    ELSE [obj |-> [file |-> [str |-> e.file], code |-> [str |-> e.code],
                   line |-> [num |-> e.line], count |-> [num |-> e.count]]]

\* JSON.stringify of a BaselineFile
stringifyBaselineFile(doc) ==
    [obj |->
        [meta |-> [obj |->
            [baselineFileVersion |-> [num |-> doc.meta.baselineFileVersion],
             ignoreMessages |-> [bool |-> doc.meta.ignoreMessages]]],
         errors |-> [obj |->
            [h \in DOMAIN doc.errors |-> stringifySummary(doc.errors[h])]]]]

\* JSON.parse of a JSON text
RECURSIVE JSONparse(_)
JSONparse(text) ==
    IF "str" \in DOMAIN text THEN text.str
    ELSE IF "num" \in DOMAIN text THEN text.num
    ELSE IF "bool" \in DOMAIN text THEN text.bool
    ELSE [k \in DOMAIN text.obj |-> JSONparse(text.obj[k])]

\* a variant that leaves the messages out when the mode ignores them
baselineFileOf_stripMessages(map, ignore) ==
    [meta |-> [baselineFileVersion |-> CURRENT_BASELINE_VERSION,
               ignoreMessages |-> ignore],
     errors |-> [h \in DOMAIN map |->
                    IF ignore
                    THEN [f \in DOMAIN map[h] \ {"message"} |-> map[h][f]]
                    ELSE map[h]]]

\* newBaselineFile of writeTypeScriptErrorsToFile
baselineFileOf(map, ignore) ==
    [meta |-> [baselineFileVersion |-> CURRENT_BASELINE_VERSION,
               ignoreMessages |-> ignore],
     errors |-> map]

\* the file after writeTypeScriptErrorsToFile(map, filepath, errorOptions):
\* writeFileSync replaces whatever the path held
writeTypeScriptErrorsToFile(map, ignore) ==
    FileWith(stringifyBaselineFile(baselineFileOf(map, ignore)))

\* readBaselineErrorsFile of a file that exists and holds JSON
readBaselineErrorsFile(file) == JSONparse(file.text)

\* a variant that takes a document without a version for a current one
getBaselineFileVersion_defaultCurrent(doc) ==
    IF "meta" \in DOMAIN doc /\ "baselineFileVersion" \in DOMAIN doc.meta
    THEN doc.meta.baselineFileVersion
    ELSE CURRENT_BASELINE_VERSION

\* getBaselineFileVersion.  Every value under a key of a BaselineFile or an
\* OldBaselineFile is an object, so typeof baselineFile?.meta === 'object'
\* is the presence of the key.
getBaselineFileVersion(doc) ==
    IF "meta" \in DOMAIN doc /\ "baselineFileVersion" \in DOMAIN doc.meta
    THEN doc.meta.baselineFileVersion
    ELSE 0

isBaselineVersionCurrent(doc) ==
    getBaselineFileVersion(doc) = CURRENT_BASELINE_VERSION

\* a variant that takes the baseline for empty
getErrorSummaryMap_empty(doc) == EmptyMap

getErrorSummaryMap(doc) == doc.errors

----------------------------------------------------------------------------
(* Inputs of getNewErrors *)

Hashes == {<<"h", "1">>, <<"h", "2">>}

SummaryLines == {10, 35}

Summaries ==
    LET base == [file : {<<"a">>}, code : {<<"T">>},
                 line : SummaryLines, count : 0..MaxCount]
    IN  base \cup
        {[file |-> b.file, code |-> b.code, line |-> b.line,
          count |-> b.count, message |-> <<"x">>] : b \in base}

SummaryMaps == UNION {[K -> Summaries] : K \in SUBSET Hashes}

\* the variables a specification leaves alone
IdleDiff == oldErrors = EmptyMap /\ newErrors = EmptyMap /\ result = EmptyMap

IdleLog ==
    /\ errorLog = <<>>
    /\ parsed = NoResult
    /\ newLog = <<>>
    /\ newParsed = NoResult

\* nobody has read the baseline path concurrently
NotRead == [read |-> FALSE]

IdleStore ==
    /\ summaryMap = EmptyMap
    /\ disk = NoFile
    /\ baselineFile = NoDocument
    /\ readMap = EmptyMap
    /\ version = 0
    /\ isCurrent = FALSE
    /\ diskBefore = NoFile
    /\ observed = NotRead

IdleFormat ==
    /\ gitlab = EmptyMap
    /\ humanText = EmptyMap
    /\ total = 0

\* no process has run
NoInvocation == [cmd |-> "none"]

NoReport == [made |-> FALSE]

NoSave == [known |-> FALSE]

NoScript == [step |-> 0]

IdleCli ==
    /\ invocation = NoInvocation
    /\ stdout = <<>>
    /\ stderr = <<>>
    /\ exitCode = 0
    /\ report = NoReport
    /\ saved = NoSave
    /\ script = NoScript
    /\ runs = 0

InitDiff ==
    /\ pc = "call"
    /\ oldErrors \in SummaryMaps
    /\ newErrors \in SummaryMaps
    /\ result = EmptyMap
    /\ ignoreMessages = FALSE
    /\ IdleLog
    /\ IdleStore
    /\ IdleCli
    /\ IdleFormat

CallGetNewErrors ==
    /\ pc = "call"
    /\ result' = getNewErrors(oldErrors, newErrors)
    /\ pc' = "returned"
    /\ UNCHANGED <<oldErrors, newErrors, ignoreMessages, logVars, storeVars,
                   cliVars, formatVars>>

NextDiff == CallGetNewErrors

SpecDiff == InitDiff /\ [][NextDiff]_vars

----------------------------------------------------------------------------
(* Inputs of parseTypeScriptErrors: blobs of at most MaxLines lines *)

Diagnostic(file, lineStr, columnStr, code, message) ==
    file \o <<"(">> \o lineStr \o <<",">> \o columnStr
         \o <<")", ":", " ", "e", "r", "r", "o", "r", " ">>
         \o code \o <<":", " ">> \o message

LogLines ==
    { Diagnostic(<<"a">>, <<"1">>, <<"1">>, <<"T", "1">>, <<"x">>),
      \* the same diagnostic at another line and column
      Diagnostic(<<"a">>, <<"2">>, <<"3">>, <<"T", "1">>, <<"x">>),
      \* the same file and code with another message
      Diagnostic(<<"a">>, <<"3">>, <<"1">>, <<"T", "1">>, <<"y">>),
      \* another file
      Diagnostic(<<"b">>, <<"1">>, <<"1">>, <<"T", "1">>, <<"x">>),
      \* another code
      Diagnostic(<<"a">>, <<"1">>, <<"2">>, <<"T", "2">>, <<"x">>),
      \* a message that itself ends like a diagnostic
      Diagnostic(<<"a">>, <<"1">>, <<"1">>, <<"T", "1">>,
                 Diagnostic(<<"x">>, <<"2">>, <<"2">>, <<"T", "2">>, <<"y">>)),
      \* runner noise: "error T1: x"
      <<"e", "r", "r", "o", "r", " ", "T", "1", ":", " ", "x">>,
      \* a diagnostic without its column
      <<"a", "(", "1", ")", ":", " ", "e", "r", "r", "o", "r", " ",
        "T", "1", ":", " ", "x">>,
      \* a diagnostic of a log with CRLF line ends
      Diagnostic(<<"a">>, <<"1">>, <<"1">>, <<"T", "1">>, <<"x", "\r">>) }

RECURSIVE Join(_)
Join(lines) ==
    IF lines = <<>> THEN <<>>
    ELSE IF Len(lines) = 1 THEN lines[1]
    ELSE lines[1] \o <<"\n">> \o Join(Tail(lines))

Blobs == {Join(ls) : ls \in UNION {[1..n -> LogLines] : n \in 0..MaxLines}}

\* the logs of two runs that are compared: shorter, over fewer lines
RunLines ==
    { Diagnostic(<<"a">>, <<"1">>, <<"1">>, <<"T", "1">>, <<"x">>),
      Diagnostic(<<"a">>, <<"2">>, <<"3">>, <<"T", "1">>, <<"x">>),
      Diagnostic(<<"a">>, <<"3">>, <<"1">>, <<"T", "1">>, <<"y">>),
      Diagnostic(<<"b">>, <<"1">>, <<"1">>, <<"T", "1">>, <<"x">>),
      Diagnostic(<<"a">>, <<"1">>, <<"2">>, <<"T", "2">>, <<"x">>),
      <<"e", "r", "r", "o", "r", " ", "T", "1", ":", " ", "x">> }

RunBlobs ==
    {Join(ls) : ls \in UNION {[1..n -> RunLines] : n \in 0..MaxRunLines}}

InitParse ==
    /\ pc = "start"
    /\ errorLog \in Blobs
    /\ ignoreMessages \in BOOLEAN
    /\ parsed = NoResult
    /\ newLog = <<>>
    /\ newParsed = NoResult
    /\ IdleDiff
    /\ IdleStore
    /\ IdleCli
    /\ IdleFormat

\* the first run: parse the log
Parse ==
    /\ pc = "start"
    /\ parsed' = parseTypeScriptErrors(errorLog, ignoreMessages)
    /\ pc' = "parsed"
    /\ UNCHANGED <<diffVars, errorLog, ignoreMessages, newLog, newParsed,
                   storeVars, cliVars, formatVars>>

\* the second run: parse another log and compare it with the first
ParseAndCompare ==
    /\ pc = "parsed"
    /\ \E log \in RunBlobs :
          /\ newLog' = log
          /\ newParsed' = parseTypeScriptErrors(log, ignoreMessages)
    /\ oldErrors' = parsed.errorSummaryMap
    /\ newErrors' = newParsed'.errorSummaryMap
    /\ result' = getNewErrors(oldErrors', newErrors')
    /\ pc' = "compared"
    /\ UNCHANGED <<errorLog, ignoreMessages, parsed, storeVars, cliVars,
                   formatVars>>

NextParse == Parse

SpecParse == InitParse /\ [][NextParse]_vars

InitCompare ==
    /\ pc = "start"
    /\ errorLog \in RunBlobs
    /\ ignoreMessages \in BOOLEAN
    /\ parsed = NoResult
    /\ newLog = <<>>
    /\ newParsed = NoResult
    /\ IdleDiff
    /\ IdleStore
    /\ IdleCli
    /\ IdleFormat

\* The formatters return an array or a text with one element or block per
\* summary, in the order of the Map; the model gives the element or block
\* made from the summary under each key and leaves the order out.

UnknownFingerprint == <<"unknown-fingerprint">>

UnknownErrorMessage == <<"Unknown error message">>

UnknownFile == <<"unknown-file">>

\* formatForGitLab: an ErrorSummary has no hash and no severity property
formatForGitLab(errors) ==
    [h \in DOMAIN errors |->
        LET error == errors[h]
        IN  [description |->
                 IF HasMessage(error) /\ error.message # <<>>
                 THEN error.message ELSE UnknownErrorMessage,
             check_name |-> <<"typescript-errors">>,
             fingerprint |->
                 IF "hash" \in DOMAIN error
                 THEN error.hash ELSE UnknownFingerprint,
             severity |->
                 IF "severity" \in DOMAIN error
                 THEN error.severity ELSE <<"minor">>,
             path |-> IF error.file # <<>> THEN error.file ELSE UnknownFile,
             begin |-> error.line]]

\* a variant that matches on the file alone
getSpecificErrorsMatchingSummary_file(errorSummary, specificErrorsMap, ignore) ==
    IF Has(specificErrorsMap, errorSummary.file)
    THEN specificErrorsMap[errorSummary.file]
    ELSE <<>>

getSpecificErrorsMatchingSummary(errorSummary, specificErrorsMap, ignore) ==
    IF Has(specificErrorsMap, errorSummary.file)
    THEN LET same(specificError) ==
                 /\ specificError.file = errorSummary.file
                 /\ \/ ignore
                    \/ /\ HasMessage(errorSummary)
                       /\ specificError.message = errorSummary.message
                 /\ specificError.code = errorSummary.code
         IN  SelectSeq(specificErrorsMap[errorSummary.file], same)
    ELSE <<>>

\* the lines `file(line,column)` of a block
Places(specificErrors) ==
    [i \in DOMAIN specificErrors |->
        <<specificErrors[i].file, specificErrors[i].line,
          specificErrors[i].column>>]

\* toHumanReadableText: the block of each summary, as the lines it holds
toHumanReadableText(errorSummaryMap, specificErrorMap, ignore) ==
    [key \in DOMAIN errorSummaryMap |->
        LET error == errorSummaryMap[key]
            specificErrors ==
                getSpecificErrorsMatchingSummary(error, specificErrorMap,
                                                 ignore)
            block == [File |-> error.file, Code |-> error.code,
                      Hash |-> key, Line |-> error.line,
                      CountOfNewErrors |-> error.count,
                      current |-> Len(specificErrors),
                      places |-> Places(specificErrors)]
        IN  IF HasMessage(error) /\ error.message # <<>>
            THEN [k \in DOMAIN block \cup {"Message"} |->
                     IF k = "Message" THEN error.message ELSE block[k]]
            ELSE block]

\* the reports of the delta of the two runs
Format ==
    /\ pc = "compared"
    /\ gitlab' = formatForGitLab(result)
    /\ humanText' = toHumanReadableText(result, newParsed.specificErrorsMap,
                                        ignoreMessages)
    /\ total' = getTotalErrorsCount(result)
    /\ pc' = "formatted"
    /\ UNCHANGED <<diffVars, logVars, ignoreMessages, storeVars, cliVars>>

NextCompare == Parse \/ ParseAndCompare \/ Format

SpecCompare == InitCompare /\ [][NextCompare]_vars

----------------------------------------------------------------------------
(* Write, then read *)

\* a summary some earlier run left in a file
PriorSummary ==
    [file |-> <<"b">>, code |-> <<"T">>, line |-> 1, count |-> 1,
     message |-> <<"y">>]

\* a file of the format before the meta field: a flat map of summaries
LegacyFile ==
    FileWith([obj |-> [h \in {"8d4f5b0a6c282e23"} |->
                          stringifySummary(PriorSummary)]])

\* a file a later release wrote
FutureFile ==
    FileWith(stringifyBaselineFile(
        [meta |-> [baselineFileVersion |-> CURRENT_BASELINE_VERSION + 1,
                   ignoreMessages |-> FALSE],
         errors |-> [h \in {<<"h", "0">>} |-> PriorSummary]]))

\* a file whose meta names version 0
StaleFile ==
    FileWith(stringifyBaselineFile(
        [meta |-> [baselineFileVersion |-> 0, ignoreMessages |-> FALSE],
         errors |-> [h \in {<<"h", "0">>} |-> PriorSummary]]))

\* a file whose meta has no baselineFileVersion
UnversionedFile ==
    FileWith([obj |->
        [meta |-> [obj |-> [ignoreMessages |-> [bool |-> FALSE]]],
         errors |-> [obj |-> [h \in {<<"h", "0">>} |->
                                 stringifySummary(PriorSummary)]]]])

\* what the baseline path may hold before the write
PriorDisks ==
    { NoFile,
      writeTypeScriptErrorsToFile(
          [h \in {<<"h", "1">>, <<"h", "0">>} |-> PriorSummary], FALSE),
      LegacyFile, FutureFile, StaleFile, UnversionedFile }

InitStore ==
    /\ pc = "start"
    /\ summaryMap \in SummaryMaps
    /\ ignoreMessages \in BOOLEAN
    /\ disk \in PriorDisks
    /\ baselineFile = NoDocument
    /\ readMap = EmptyMap
    /\ version = 0
    /\ isCurrent = FALSE
    /\ diskBefore = NoFile
    /\ observed = NotRead
    /\ IdleDiff
    /\ IdleLog
    /\ IdleCli
    /\ IdleFormat

\* a variant that keeps the entries the file held before the write
WriteFile_merge ==
    /\ pc = "start"
    /\ LET before == IF disk.exists /\ "errors" \in DOMAIN disk.text.obj
                     THEN disk.text.obj.errors.obj
                     ELSE EmptyMap
           after == stringifyBaselineFile(
                        baselineFileOf(summaryMap, ignoreMessages))
       IN  disk' = FileWith([obj |->
               [meta |-> after.obj.meta,
                errors |-> [obj |->
                   [h \in (DOMAIN before) \cup (DOMAIN summaryMap) |->
                       IF h \in DOMAIN summaryMap
                       THEN after.obj.errors.obj[h]
                       ELSE before[h]]]]])
    /\ diskBefore' = disk
    /\ pc' = "written"
    /\ UNCHANGED <<summaryMap, baselineFile, readMap, version, isCurrent,
                   observed, ignoreMessages, diffVars, logVars, cliVars,
                   formatVars>>

WriteFile ==
    /\ pc = "start"
    /\ disk' = writeTypeScriptErrorsToFile(summaryMap, ignoreMessages)
    /\ diskBefore' = disk
    /\ pc' = "written"
    /\ UNCHANGED <<summaryMap, baselineFile, readMap, version, isCurrent,
                   observed, ignoreMessages, diffVars, logVars, cliVars,
                   formatVars>>

ReadFile ==
    /\ pc = "written"
    /\ disk.exists
    /\ baselineFile' = readBaselineErrorsFile(disk)
    /\ readMap' = getErrorSummaryMap(baselineFile')
    /\ version' = getBaselineFileVersion(baselineFile')
    /\ isCurrent' = isBaselineVersionCurrent(baselineFile')
    /\ pc' = "read"
    /\ UNCHANGED <<summaryMap, disk, diskBefore, observed, ignoreMessages,
                   diffVars, logVars, cliVars, formatVars>>

\* read the file an earlier run left and take its version
ReadPrior ==
    /\ pc = "start"
    /\ disk.exists
    /\ baselineFile' = readBaselineErrorsFile(disk)
    /\ version' = getBaselineFileVersion(baselineFile')
    /\ isCurrent' = isBaselineVersionCurrent(baselineFile')
    /\ pc' = "readPrior"
    /\ UNCHANGED <<summaryMap, disk, diskBefore, observed, readMap,
                   ignoreMessages, diffVars, logVars, cliVars, formatVars>>

NextStore == WriteFile \/ ReadFile \/ ReadPrior

SpecStore == InitStore /\ [][NextStore]_vars

----------------------------------------------------------------------------
(* The command line: src/cli.ts *)

\* the number of lines of a log piped to the command line
MaxCliLines == 2

\* a file that is not JSON
GarbageFile == FileWith([invalid |-> TRUE])

\* readFileSync and JSON.parse both succeed
CanRead(file) == file.exists /\ "invalid" \notin DOMAIN file.text

\* what readBaselineErrorsFile throws
ReadError(file) == IF file.exists THEN "SyntaxError" ELSE "ENOENT"

\* What one run of a command's action does: the file it leaves, what it
\* prints, whether it calls process.exit(1), what it throws ("" for nothing)
\* and what it reports.
Quiet(file) ==
    [disk |-> file, stdout |-> <<>>, stderr |-> <<>>, exit |-> FALSE,
     thrown |-> "", report |-> NoReport]

Throws(file, message) == [Quiet(file) EXCEPT !.thrown = message]

Fails(file, message) ==
    [Quiet(file) EXCEPT !.stderr = <<message>>, !.exit = TRUE]

\* the entry addHashToBaseline writes
PlaceholderSummary ==
    [code |-> <<"0", "0", "0", "0">>, file |-> <<"0", "0", "0", "0">>,
     message |-> <<"0", "0", "0", "0">>, line |-> 0, count |-> 1]

\* a variant that writes the new entry alone
addHashToBaseline_alone(hash, file) ==
    IF ~CanRead(file) THEN Throws(file, ReadError(file))
    ELSE LET baselineErrorsFile == readBaselineErrorsFile(file)
         IN  IF ~isBaselineVersionCurrent(baselineErrorsFile)
             THEN Throws(file, "NotCurrent")
             ELSE [Quiet(file) EXCEPT !.disk =
                      writeTypeScriptErrorsToFile(
                          MapSet(EmptyMap, hash, PlaceholderSummary),
                          baselineErrorsFile.meta.ignoreMessages)]

addHashToBaseline(hash, file) ==
    IF ~CanRead(file) THEN Throws(file, ReadError(file))
    ELSE LET baselineErrorsFile == readBaselineErrorsFile(file)
         IN  IF ~isBaselineVersionCurrent(baselineErrorsFile)
             THEN Throws(file, "NotCurrent")
             ELSE LET old == getErrorSummaryMap(baselineErrorsFile)
                      new == MapSet(old, hash, PlaceholderSummary)
                  IN  [Quiet(file) EXCEPT !.disk =
                          writeTypeScriptErrorsToFile(new,
                              baselineErrorsFile.meta.ignoreMessages)]

\* the save action, with the standard input read so far and what
\* parseTypeScriptErrors made of it
saveAction(inv, seen, file, parsedNow) ==
    IF seen = <<>> THEN Quiet(file)
    ELSE [Quiet(file) EXCEPT
            !.disk = writeTypeScriptErrorsToFile(parsedNow.errorSummaryMap,
                                                 inv.ignoreMessages),
            !.stdout = <<"Saved">>]

\* the add action
addAction(inv, seen, file) ==
    IF inv.hash = <<>>
    THEN [Quiet(file) EXCEPT !.stderr = <<"MissingHash">>]
    ELSE addHashToBaseline(inv.hash, file)

\* the clear action: rmSync throws when there is no file
clearAction(inv, seen, file) ==
    IF ~file.exists THEN Throws(file, "ENOENT")
    ELSE [Quiet(file) EXCEPT !.disk = NoFile, !.stdout = <<"Removed">>]

\* the members of ErrorFormat the check action tests for
ErrorFormat == {"HUMAN", "GITLAB"}

\* a variant that goes on without a baseline
unreadableBaseline_silent(file) == Quiet(file)

\* check, the baseline cannot be read
unreadableBaseline(file) == Fails(file, "UnableToRead")

\* a variant with the two messages exchanged
versionGate_exchanged(baselineFileVersion) ==
    IF baselineFileVersion < CURRENT_BASELINE_VERSION
    THEN "FutureVersion"
    ELSE "OutOfDate"

\* check, the baseline is not current: the message it ends with
versionGate(baselineFileVersion) ==
    IF baselineFileVersion < CURRENT_BASELINE_VERSION
    THEN "OutOfDate"
    ELSE "FutureVersion"

\* a variant that hashes with the mode of the command line
errorOptionsOf_config(doc, inv) == inv.ignoreMessages

\* check hashes with the mode the baseline was written with
errorOptionsOf(doc, inv) == doc.meta.ignoreMessages

\* a variant that fails from the second new error on
hasNewErrors_two(newErrorsCount) == newErrorsCount > 1

hasNewErrors(newErrorsCount) == newErrorsCount > 0

\* The structured report of a delta: an entry per summary, with the identity
\* hash as fingerprint and the file and line as location.
toGitLabOutputFormat(newErrorSummaries) ==
    {[fingerprint |-> h,
      path |-> newErrorSummaries[h].file,
      begin |-> newErrorSummaries[h].line] : h \in DOMAIN newErrorSummaries}

\* check, with a current baseline and what parseTypeScriptErrors made of
\* the input
compareWithBaseline(inv, seen, file, doc, parsedNow) ==
    LET oldErrorSummaries == getErrorSummaryMap(doc)
        newErrorSummaries ==
            getNewErrors(oldErrorSummaries, parsedNow.errorSummaryMap)
        newErrorsCount == getTotalErrorsCount(newErrorSummaries)
        oldErrorsCount == getTotalErrorsCount(oldErrorSummaries)
        made == [made |-> TRUE, delta |-> newErrorSummaries,
                 newErrorsCount |-> newErrorsCount,
                 oldErrorsCount |-> oldErrorsCount,
                 structured |->
                     IF inv.errorFormat = "GITLAB"
                     THEN toGitLabOutputFormat(newErrorSummaries)
                     ELSE {}]
    IN  IF inv.errorFormat \in ErrorFormat
        THEN [Quiet(file) EXCEPT
                !.stderr = <<inv.errorFormat>>,
                !.report = made,
                !.exit = hasNewErrors(newErrorsCount)]
        ELSE Fails(file, "InvalidFormat")

\* a variant that writes what it parsed, as save does
checkAction_saves(inv, seen, file, parsedNow) ==
    saveAction(inv, seen, file, parsedNow)

\* the check action, with the standard input read so far
checkAction(inv, seen, file, parsedNow) ==
    IF seen = <<>> THEN Quiet(file)
    ELSE IF ~CanRead(file) THEN unreadableBaseline(file)
    ELSE LET doc == readBaselineErrorsFile(file)
         IN  IF ~isBaselineVersionCurrent(doc)
             THEN Fails(file, versionGate(getBaselineFileVersion(doc)))
             ELSE compareWithBaseline(inv, seen, file, doc, parsedNow)

\* the action commander dispatches to
RunCommand(inv, seen, file, parsedNow) ==
    IF inv.cmd = "save" THEN saveAction(inv, seen, file, parsedNow)
    ELSE IF inv.cmd = "check" THEN checkAction(inv, seen, file, parsedNow)
    ELSE IF inv.cmd = "add" THEN addAction(inv, seen, file)
    ELSE clearAction(inv, seen, file)

\* the action reaches its call of parseTypeScriptErrors
Parses(inv, seen, file) ==
    /\ seen # <<>>
    /\ \/ inv.cmd = "save"
       \/ /\ inv.cmd = "check"
          /\ CanRead(file)
          /\ isBaselineVersionCurrent(readBaselineErrorsFile(file))

\* a variant that parses with the flag of the command line
ParsesWith_commandLine(inv, file) == inv.ignoreMessages

\* the errorOptions it parses with
ParsesWith(inv, file) ==
    IF inv.cmd = "save" THEN inv.ignoreMessages
    ELSE errorOptionsOf(readBaselineErrorsFile(file), inv)

\* The logs piped in: nothing, a blank, and up to MaxCliLines lines of one
\* diagnostic at two places and one with another message.
CliLines ==
    { Diagnostic(<<"a">>, <<"1">>, <<"1">>, <<"T", "1">>, <<"x">>),
      Diagnostic(<<"a">>, <<"2">>, <<"3">>, <<"T", "1">>, <<"x">>),
      Diagnostic(<<"a">>, <<"3">>, <<"1">>, <<"T", "1">>, <<"y">>) }

CliLogs ==
    {<<" ">>} \cup
    {Join(ls) : ls \in UNION {[1..n -> CliLines] : n \in 0..MaxCliLines}}

\* the hash arguments of add: none, the hash of a diagnostic, any other word
HashArgs ==
    { <<>>,
      getErrorSummaryHash([file |-> <<"a">>, code |-> <<"T", "1">>,
                           message |-> <<"x">>], FALSE),
      <<"f", "f">> }

CommandLine(cmd, x, tty, hash, ignore, format) ==
    [cmd |-> cmd, stdin |-> x, tty |-> tty, hash |-> hash,
     ignoreMessages |-> ignore, errorFormat |-> format]

\* the processes that may be started; on a terminal nothing is read from
\* standard input
Invocations ==
    {CommandLine("save", x, FALSE, <<>>, f, "HUMAN") :
        x \in CliLogs, f \in BOOLEAN}
    \cup {CommandLine("check", x, FALSE, <<>>, f, e) :
        x \in CliLogs, f \in BOOLEAN, e \in ErrorFormat \cup {"true"}}
    \cup {CommandLine("add", <<>>, t, h, FALSE, "HUMAN") :
        t \in BOOLEAN, h \in HashArgs}
    \cup {CommandLine(c, <<>>, t, <<>>, FALSE, "HUMAN") :
        c \in {"clear"}, t \in BOOLEAN}
    \cup {CommandLine(c, <<>>, TRUE, <<>>, FALSE, "HUMAN") :
        c \in {"save", "check"}}

\* what the baseline path holds before the first process
CliDisks ==
    {NoFile, GarbageFile, LegacyFile, FutureFile, StaleFile, UnversionedFile}

InitCli ==
    /\ pc = "idle"
    /\ disk \in CliDisks
    /\ diskBefore = NoFile
    /\ invocation = NoInvocation
    /\ stdout = <<>>
    /\ stderr = <<>>
    /\ exitCode = 0
    /\ report = NoReport
    /\ saved = NoSave
    /\ script = NoScript
    /\ runs = 0
    /\ observed = NotRead
    /\ ignoreMessages = FALSE
    /\ summaryMap = EmptyMap
    /\ baselineFile = NoDocument
    /\ readMap = EmptyMap
    /\ version = 0
    /\ isCurrent = FALSE
    /\ IdleDiff
    /\ IdleLog
    /\ IdleFormat

\* a process starts: the program is built and stdin is ''
Start(inv) ==
    /\ invocation' = inv
    /\ stdout' = <<>>
    /\ stderr' = <<>>
    /\ exitCode' = 0
    /\ report' = NoReport
    /\ diskBefore' = disk
    /\ errorLog' = <<>>
    /\ ignoreMessages' = FALSE
    /\ parsed' = NoResult
    /\ pc' = "started"
    /\ runs' = 0
    /\ UNCHANGED <<disk, saved, summaryMap, baselineFile, readMap, version,
                   isCurrent, observed, diffVars, newLog, newParsed,
                   formatVars>>

Invoke ==
    /\ pc \in {"idle", "exited"}
    /\ \E inv \in Invocations : Start(inv)
    /\ UNCHANGED script

\* One dispatch of the command line to its action.  A process.exit(1) ends
\* the process; so does an exception nothing catches, with its message on
\* stderr; a caught exception has its message printed by console.error.
\* errorLog, ignoreMessages and parsed hold the arguments and the result of
\* the action's call of parseTypeScriptErrors.
Dispatch(seen, caught, next) ==
    /\ IF Parses(invocation, seen, disk)
       THEN /\ errorLog' = seen
            /\ ignoreMessages' = ParsesWith(invocation, disk)
            /\ parsed' = parseTypeScriptErrors(errorLog', ignoreMessages')
       ELSE UNCHANGED <<errorLog, ignoreMessages, parsed>>
    /\ LET r == RunCommand(invocation, seen, disk, parsed')
           dies == r.exit \/ (r.thrown # "" /\ ~caught)
       IN  /\ disk' = r.disk
           /\ stdout' = stdout \o r.stdout
           /\ stderr' = stderr \o r.stderr
                  \o (IF r.thrown = "" THEN <<>> ELSE <<r.thrown>>)
           /\ report' = IF r.report.made THEN r.report ELSE report
           /\ exitCode' = IF dies THEN 1 ELSE exitCode
           /\ pc' = IF dies THEN "exited" ELSE next
           /\ saved' = IF invocation.cmd = "save" /\ seen # <<>>
                       THEN [known |-> TRUE, log |-> seen,
                             mode |-> invocation.ignoreMessages]
                       ELSE IF r.disk # disk THEN NoSave ELSE saved
    /\ runs' = runs + 1
    /\ UNCHANGED <<invocation, diskBefore, script, summaryMap, baselineFile,
                   readMap, version, isCurrent, observed, diffVars, newLog,
                   newParsed, formatVars>>

\* The first dispatch, before anything is read from stdin: program.parse on
\* a terminal (an exception rejects the promise of the main function, which
\* nothing handles), program.parseAsync inside try/catch otherwise.
FirstDispatch ==
    /\ pc = "started"
    /\ Dispatch(<<>>, ~invocation.tty, "dispatched")

\* The second dispatch: program.parseAsync inside try/catch on a terminal,
\* program.parse in the 'end' handler of stdin otherwise, with all of stdin.
SecondDispatch ==
    /\ pc = "dispatched"
    /\ Dispatch(IF invocation.tty THEN <<>> ELSE invocation.stdin,
                invocation.tty, "exited")

NextCli == Invoke \/ FirstDispatch \/ SecondDispatch

SpecCli == InitCli /\ [][NextCli]_vars

\* A session of four processes: save a log, check another, add a hash the
\* check reported, check the same log again.
InitSession ==
    /\ pc = "idle"
    /\ disk = NoFile
    /\ diskBefore = NoFile
    /\ summaryMap = EmptyMap
    /\ baselineFile = NoDocument
    /\ readMap = EmptyMap
    /\ version = 0
    /\ isCurrent = FALSE
    /\ ignoreMessages = FALSE
    /\ observed = NotRead
    /\ IdleCli
    /\ IdleDiff
    /\ IdleLog
    /\ IdleFormat

SessionSave ==
    /\ script.step = 0
    /\ pc = "idle"
    /\ \E a \in CliLogs \ {<<>>}, f \in BOOLEAN :
          Start(CommandLine("save", a, FALSE, <<>>, f, "HUMAN"))
    /\ script' = [step |-> 1]

SessionCheck ==
    /\ script.step = 1
    /\ pc = "exited"
    /\ \E x \in CliLogs \ {<<>>} :
          /\ Start(CommandLine("check", x, FALSE, <<>>, FALSE, "HUMAN"))
          /\ script' = [step |-> 2, log |-> x]

\* add a hash copied from the output of the check
SessionAdd ==
    /\ script.step = 2
    /\ pc = "exited"
    /\ report.made
    /\ \E h \in DOMAIN report.delta :
          /\ Start(CommandLine("add", <<>>, FALSE, h, FALSE, "HUMAN"))
          /\ script' = [step |-> 3, log |-> script.log, hash |-> h,
                        count |-> report.delta[h].count, reported |-> TRUE,
                        before |-> report.newErrorsCount]

\* add a hash the baseline already holds
SessionAddKnown ==
    /\ script.step = 2
    /\ pc = "exited"
    /\ report.made
    /\ \E h \in DOMAIN getErrorSummaryMap(readBaselineErrorsFile(disk)) :
          /\ Start(CommandLine("add", <<>>, FALSE, h, FALSE, "HUMAN"))
          /\ script' = [step |-> 3, log |-> script.log, hash |-> h,
                        count |-> 0, reported |-> Has(report.delta, h),
                        before |-> report.newErrorsCount]

SessionCheckAgain ==
    /\ script.step = 3
    /\ pc = "exited"
    /\ Start(CommandLine("check", script.log, FALSE, <<>>, FALSE, "HUMAN"))
    /\ script' = [script EXCEPT !.step = 4]

NextSession ==
    \/ SessionSave
    \/ SessionCheck
    \/ SessionAdd
    \/ SessionAddKnown
    \/ SessionCheckAgain
    \/ FirstDispatch
    \/ SecondDispatch

SpecSession == InitSession /\ [][NextSession]_vars

\* The write seen from another process.  writeFileSync(filepath, data) opens
\* the baseline path itself for writing, which creates it or cuts it to
\* length 0, and then writes the text; no other file is written and renamed.
\* A file of length 0 is not JSON.
TruncatedFile == FileWith([invalid |-> TRUE, length |-> 0])

\* writeFileSync, the open
OpenForWrite ==
    /\ pc = "start"
    /\ disk' = TruncatedFile
    /\ diskBefore' = disk
    /\ pc' = "opened"
    /\ UNCHANGED <<summaryMap, baselineFile, readMap, version, isCurrent,
                   observed, ignoreMessages, diffVars, logVars, cliVars,
                   formatVars>>

\* writeFileSync, the write of the text and the close
WriteContents ==
    /\ pc = "opened"
    /\ disk' = writeTypeScriptErrorsToFile(summaryMap, ignoreMessages)
    /\ pc' = "written"
    /\ UNCHANGED <<summaryMap, diskBefore, baselineFile, readMap, version,
                   isCurrent, observed, ignoreMessages, diffVars, logVars,
                   cliVars, formatVars>>

\* readFileSync of the baseline path in another process, once, at any moment
\* of the write
ConcurrentRead ==
    /\ pc \in {"start", "opened", "written"}
    /\ observed = NotRead
    /\ observed' = [read |-> TRUE, file |-> disk, parses |-> CanRead(disk)]
    /\ UNCHANGED <<pc, summaryMap, disk, diskBefore, baselineFile, readMap,
                   version, isCurrent, ignoreMessages, diffVars, logVars,
                   cliVars, formatVars>>

NextRace == OpenForWrite \/ WriteContents \/ ConcurrentRead

SpecRace == InitStore /\ [][NextRace]_vars

----------------------------------------------------------------------------
(* What a log holds, read off its lines alone *)

MatchingLines(log) == SelectSeq(split(log), Matches)

\* the matched occurrences of a log, in input order
Occurrences(log) ==
    LET ls == MatchingLines(log)
    IN  [i \in 1..Len(ls) |-> SpecificErrorOf(ls[i])]

Triple(e) == <<e.file, e.code, e.message>>

\* the identity of an occurrence under a mode
Ident(e, ignore) ==
    IF ignore THEN <<e.file, e.code>> ELSE <<e.file, e.code, e.message>>

\* the identity a summary stands for under a mode
SummaryIdent(s, ignore) ==
    IF ignore THEN <<s.file, s.code>> ELSE <<s.file, s.code, s.message>>

IndicesOf(occ, id, ignore) ==
    {i \in DOMAIN occ : Ident(occ[i], ignore) = id}

\* the first and the last occurrence of an identity
FirstOf(is) == CHOOSE x \in is : \A y \in is : x <= y

LastOf(is) == CHOOSE x \in is : \A y \in is : y <= x

\* the two logs hold the same multiset of (file, code, message)
SameTriples(a, b) ==
    LET oa == Occurrences(a)
        ob == Occurrences(b)
        ts == {Triple(oa[i]) : i \in DOMAIN oa}
                  \cup {Triple(ob[i]) : i \in DOMAIN ob}
    IN  \A t \in ts :
            Cardinality({i \in DOMAIN oa : Triple(oa[i]) = t})
                = Cardinality({i \in DOMAIN ob : Triple(ob[i]) = t})

----------------------------------------------------------------------------
\* C1: every identity hash present in new and absent from old is in the
\* result, mapped to the new summary unchanged (with its full count).
C1_AbsentFromOldKeptWhole ==
    pc = "returned" =>
        \A id \in DOMAIN newErrors :
            ~Has(oldErrors, id) =>
                /\ Has(result, id)
                /\ result[id] = newErrors[id]

C1_Witness ==
    /\ pc = "returned"
    /\ \E id \in DOMAIN newErrors :
          /\ ~Has(oldErrors, id)
          /\ newErrors[id].count = MaxCount
          /\ Has(result, id)
    /\ oldErrors # EmptyMap

\* C2: an identity hash in both maps with oldCount < newCount is in the
\* result, mapped to the new summary with count = newCount - oldCount and
\* every other field as in the new summary.
C2_GrownReportsExcess ==
    pc = "returned" =>
        \A id \in (DOMAIN newErrors) \cap (DOMAIN oldErrors) :
            oldErrors[id].count < newErrors[id].count =>
                /\ Has(result, id)
                /\ result[id].count = newErrors[id].count - oldErrors[id].count
                /\ DOMAIN result[id] = DOMAIN newErrors[id]
                /\ \A f \in DOMAIN newErrors[id] \ {"count"} :
                      result[id][f] = newErrors[id][f]

C2_Witness ==
    /\ pc = "returned"
    /\ \E id \in (DOMAIN newErrors) \cap (DOMAIN oldErrors) :
          /\ oldErrors[id].count = 1
          /\ newErrors[id].count = MaxCount
          /\ oldErrors[id].line # newErrors[id].line
          /\ HasMessage(newErrors[id]) /\ ~HasMessage(oldErrors[id])
          /\ Has(result, id)
          /\ result[id].count = MaxCount - 1

\* C3: an identity hash in both maps with oldCount >= newCount is not in the
\* result; in particular getNewErrors(S, S) is the empty map.
C3_NotGrownNotReported ==
    pc = "returned" =>
        /\ \A id \in (DOMAIN newErrors) \cap (DOMAIN oldErrors) :
              oldErrors[id].count >= newErrors[id].count => ~Has(result, id)
        /\ (oldErrors = newErrors => result = EmptyMap)

C3_Witness ==
    /\ pc = "returned"
    /\ oldErrors = newErrors
    /\ Cardinality(DOMAIN newErrors) = 2
    /\ \E id \in DOMAIN newErrors : newErrors[id].count >= 2
    /\ result = EmptyMap

\* C4: the hashes of the result are hashes of new (an identity only in old
\* is never emitted), and when every count of old and new is >= 1 every
\* emitted summary has 1 <= count <= the count of that identity in new.
C4_ResultWithinNew ==
    pc = "returned" =>
        /\ DOMAIN result \subseteq DOMAIN newErrors
        /\ ( /\ \A id \in DOMAIN oldErrors : oldErrors[id].count >= 1
             /\ \A id \in DOMAIN newErrors : newErrors[id].count >= 1 )
           => \A id \in DOMAIN result :
                 /\ 1 <= result[id].count
                 /\ result[id].count <= newErrors[id].count

C4_Witness ==
    /\ pc = "returned"
    /\ \A id \in DOMAIN oldErrors : oldErrors[id].count >= 1
    /\ \A id \in DOMAIN newErrors : newErrors[id].count >= 1
    /\ \E id \in DOMAIN oldErrors : ~Has(newErrors, id)
    /\ \E id \in DOMAIN result :
          /\ Has(oldErrors, id)
          /\ result[id].count < newErrors[id].count

----------------------------------------------------------------------------
\* C5: two logs that hold the same multiset of (file, code, message)
\* diagnostics and differ only in line and column numbers give an empty
\* getNewErrors of their parses.
C5_MovedIsNotNew ==
    (pc = "compared" /\ SameTriples(errorLog, newLog)) => result = EmptyMap

C5_Witness ==
    /\ pc = "compared"
    /\ SameTriples(errorLog, newLog)
    /\ Len(Occurrences(errorLog)) = MaxRunLines
    /\ \A i \in DOMAIN Occurrences(errorLog) :
          Occurrences(errorLog)[i].line # Occurrences(newLog)[i].line
    /\ result = EmptyMap

\* C6: errorSummaryMap holds exactly one summary per distinct identity among
\* the matched lines, and its count is the number of matched lines with that
\* identity.
C6_OneSummaryPerIdentity ==
    pc = "parsed" =>
        LET occ == Occurrences(errorLog)
            esm == parsed.errorSummaryMap
        IN  /\ \A i \in DOMAIN occ :
                  Cardinality({k \in DOMAIN esm :
                      SummaryIdent(esm[k], ignoreMessages)
                          = Ident(occ[i], ignoreMessages)}) = 1
            /\ \A k \in DOMAIN esm :
                  /\ esm[k].count >= 1
                  /\ esm[k].count = Cardinality(IndicesOf(occ,
                         SummaryIdent(esm[k], ignoreMessages), ignoreMessages))

C6_Witness ==
    /\ pc = "parsed"
    /\ ~ignoreMessages
    /\ Cardinality(DOMAIN parsed.errorSummaryMap) = 1
    /\ Len(Occurrences(errorLog)) >= 2
    /\ \E k \in DOMAIN parsed.errorSummaryMap :
          parsed.errorSummaryMap[k].count = Len(Occurrences(errorLog))
    /\ \A i, j \in DOMAIN Occurrences(errorLog) :
          i # j => /\ Occurrences(errorLog)[i].line # Occurrences(errorLog)[j].line
                   /\ Occurrences(errorLog)[i].column
                          # Occurrences(errorLog)[j].column

C8_SameHashIffSameIdentity ==
    pc = "compared" =>
        LET oa == Occurrences(errorLog)
            ob == Occurrences(newLog)
            all == {oa[i] : i \in DOMAIN oa} \cup {ob[i] : i \in DOMAIN ob}
            KeyOf(e) == getErrorSummaryHash(NewSummary(e, ignoreMessages),
                                            ignoreMessages)
        IN  /\ \A a, b \in all :
                  (KeyOf(a) = KeyOf(b))
                      <=> (Ident(a, ignoreMessages) = Ident(b, ignoreMessages))
            /\ \A i \in DOMAIN oa :
                  /\ Has(parsed.errorSummaryMap, KeyOf(oa[i]))
                  /\ SummaryIdent(parsed.errorSummaryMap[KeyOf(oa[i])],
                                  ignoreMessages)
                         = Ident(oa[i], ignoreMessages)
            /\ \A i \in DOMAIN ob :
                  /\ Has(newParsed.errorSummaryMap, KeyOf(ob[i]))
                  /\ SummaryIdent(newParsed.errorSummaryMap[KeyOf(ob[i])],
                                  ignoreMessages)
                         = Ident(ob[i], ignoreMessages)
            /\ \A a \in all : \A l \in SummaryLines : \A c \in 1..MaxCount :
                  getErrorSummaryHash(
                      [NewSummary(a, ignoreMessages)
                          EXCEPT !.line = l, !.count = c], ignoreMessages)
                      = KeyOf(a)

C8_Witness ==
    /\ pc = "compared"
    /\ ignoreMessages
    /\ \E i \in DOMAIN Occurrences(errorLog) :
       \E j \in DOMAIN Occurrences(newLog) :
          LET a == Occurrences(errorLog)[i]
              b == Occurrences(newLog)[j]
          IN  /\ a.message # b.message
              /\ a.line # b.line
              /\ getErrorSummaryHash(NewSummary(a, TRUE), TRUE)
                     = getErrorSummaryHash(NewSummary(b, TRUE), TRUE)
    /\ \E i, j \in DOMAIN Occurrences(errorLog) :
          Occurrences(errorLog)[i].code # Occurrences(errorLog)[j].code

\* C9: a line that does not match the pattern contributes nothing to
\* specificErrorsMap or errorSummaryMap: the result is that of the matching
\* lines alone under the same ignoreMessages flag, and every stored
\* occurrence comes from a matching line.
C9_NonMatchingLinesDiscarded ==
    pc = "parsed" =>
        LET occ == Occurrences(errorLog)
            sem == parsed.specificErrorsMap
        IN  /\ parsed = parseTypeScriptErrors(Join(MatchingLines(errorLog)),
                                              ignoreMessages)
            /\ \A f \in DOMAIN sem : \A i \in DOMAIN sem[f] :
                  \E j \in DOMAIN occ : occ[j] = sem[f][i]
            /\ (occ = <<>> => parsed = NoResult)

C9_Witness ==
    /\ pc = "parsed"
    /\ Len(split(errorLog)) = MaxLines
    /\ Len(MatchingLines(errorLog)) = 1
    /\ split(errorLog)[1] # MatchingLines(errorLog)[1]
    /\ Cardinality(DOMAIN parsed.errorSummaryMap) = 1

\* C10: reading the document written from a summary map M under either mode
\* and taking getErrorSummaryMap of it gives a map with the same identity
\* hashes, the same counts and the same presence or absence of message.
C10_WriteReadRoundTrip ==
    pc = "read" =>
        /\ DOMAIN readMap = DOMAIN summaryMap
        /\ \A h \in DOMAIN summaryMap :
              /\ readMap[h].count = summaryMap[h].count
              /\ HasMessage(readMap[h]) <=> HasMessage(summaryMap[h])
              /\ HasMessage(summaryMap[h])
                     => readMap[h].message = summaryMap[h].message

C10_Witness ==
    /\ pc = "read"
    /\ ignoreMessages
    /\ disk.exists
    /\ Cardinality(DOMAIN summaryMap) = 2
    /\ \E h, g \in DOMAIN summaryMap :
          /\ HasMessage(summaryMap[h]) /\ ~HasMessage(summaryMap[g])
          /\ summaryMap[h].count = MaxCount
          /\ HasMessage(readMap[h]) /\ ~HasMessage(readMap[g])
    /\ baselineFile.meta.baselineFileVersion = CURRENT_BASELINE_VERSION

----------------------------------------------------------------------------
\* C11: whatever the file held before, after writeTypeScriptErrorsToFile(M,
\* path, mode) it holds a document with meta.baselineFileVersion =
\* CURRENT_BASELINE_VERSION, meta.ignoreMessages = mode and errors = M; no
\* entry of the previous document survives unless it is in M.
C11_WriteReplacesDocument ==
    pc = "written" =>
        /\ disk.exists
        /\ DOMAIN disk.text.obj = {"meta", "errors"}
        /\ disk.text.obj.meta.obj.baselineFileVersion.num
               = CURRENT_BASELINE_VERSION
        /\ disk.text.obj.meta.obj.ignoreMessages.bool = ignoreMessages
        /\ DOMAIN disk.text.obj.errors.obj = DOMAIN summaryMap
        /\ JSONparse(disk.text).errors = summaryMap

\* the file held an entry that is not in M, and a document of another version
C11_Witness ==
    /\ pc = "written"
    /\ diskBefore = StaleFile
    /\ Has(JSONparse(diskBefore.text).errors, <<"h", "0">>)
    /\ summaryMap # EmptyMap
    /\ ignoreMessages
    /\ ~Has(JSONparse(disk.text).errors, <<"h", "0">>)

\* C12: getBaselineFileVersion(doc) is doc.meta.baselineFileVersion when the
\* document has a meta object with that field and 0 otherwise (the legacy
\* flat map), and isBaselineVersionCurrent(doc) holds exactly when that value
\* is CURRENT_BASELINE_VERSION.
C12_VersionOfDocument ==
    pc \in {"read", "readPrior"} =>
        LET top == disk.text.obj
            versioned ==
                /\ "meta" \in DOMAIN top
                /\ "baselineFileVersion" \in DOMAIN top.meta.obj
        IN  /\ versioned => version = top.meta.obj.baselineFileVersion.num
            /\ ~versioned => version = 0
            /\ isCurrent <=> (version = CURRENT_BASELINE_VERSION)

C12_Witness ==
    /\ pc = "readPrior"
    /\ disk = LegacyFile
    /\ version = 0
    /\ ~isCurrent

\* the version a readable file states, read off its text; 0 when it states
\* none
VersionOnDisk(file) ==
    LET top == file.text.obj
    IN  IF "meta" \in DOMAIN top
           /\ "baselineFileVersion" \in DOMAIN top.meta.obj
        THEN top.meta.obj.baselineFileVersion.num
        ELSE 0

\* a check process has ended
CheckEnded == pc = "exited" /\ invocation.cmd = "check"

\* C13 as stated: every check with a readable baseline whose version differs
\* from the current one ends with a failure exit status and the message for
\* its version, without a diff.
C13_AnyCheckRejected ==
    (/\ CheckEnded
     /\ CanRead(disk)
     /\ VersionOnDisk(disk) # CURRENT_BASELINE_VERSION) =>
        /\ ~report.made
        /\ exitCode = 1
        /\ stderr = <<IF VersionOnDisk(disk) < CURRENT_BASELINE_VERSION
                      THEN "OutOfDate" ELSE "FutureVersion">>

\* C13: check with non-empty input and a readable baseline whose version
\* differs from the current one never parses the input nor reports a diff:
\* it ends with a failure exit status, with the out-of-date message when the
\* version is below current (a document without meta included) and the
\* future-version message when it is above.
C13_StaleBaselineRejected ==
    (/\ CheckEnded
     /\ invocation.stdin # <<>>
     /\ CanRead(disk)
     /\ VersionOnDisk(disk) # CURRENT_BASELINE_VERSION) =>
        /\ ~report.made
        /\ parsed = NoResult
        /\ exitCode = 1
        /\ stderr = <<IF VersionOnDisk(disk) < CURRENT_BASELINE_VERSION
                      THEN "OutOfDate" ELSE "FutureVersion">>

C13_Witness ==
    /\ CheckEnded
    /\ Len(Occurrences(invocation.stdin)) > 0
    /\ disk = LegacyFile
    /\ exitCode = 1
    /\ stderr = <<"OutOfDate">>

\* C14: check with non-empty input when the baseline file is absent or is
\* not JSON ends with a failure exit status and the unable-to-read guidance,
\* and reports no result.
C14_UnreadableBaselineFails ==
    (/\ CheckEnded
     /\ invocation.stdin # <<>>
     /\ (~disk.exists \/ disk = GarbageFile)) =>
        /\ ~report.made
        /\ exitCode = 1
        /\ stderr = <<"UnableToRead">>

C14_Witness ==
    /\ CheckEnded
    /\ Len(Occurrences(invocation.stdin)) > 0
    /\ disk = GarbageFile
    /\ exitCode = 1
    /\ stderr = <<"UnableToRead">>

\* the key of an occurrence in a baseline of a mode
KeyOf(e, ignore) ==
    getErrorSummaryHash([file |-> e.file, code |-> e.code,
                         message |-> e.message], ignore)

\* every diagnostic of the log is accounted for by the entries of the file
CoveredBy(log, file) ==
    LET doc == JSONparse(file.text)
        occ == Occurrences(log)
        mode == doc.meta.ignoreMessages
    IN  \A i \in DOMAIN occ :
            /\ Has(doc.errors, KeyOf(occ[i], mode))
            /\ doc.errors[KeyOf(occ[i], mode)].count >=
                   Cardinality({j \in DOMAIN occ :
                       KeyOf(occ[j], mode) = KeyOf(occ[i], mode)})

\* C15: check with non-empty input, a current baseline and a valid error
\* format exits with a failure status exactly when the total count of the new
\* errors is above 0; when the baseline covers every diagnostic of the input
\* it exits with status 0.
C15_FailsIffNewErrors ==
    (/\ CheckEnded
     /\ invocation.stdin # <<>>
     /\ CanRead(disk)
     /\ VersionOnDisk(disk) = CURRENT_BASELINE_VERSION
     /\ invocation.errorFormat \in ErrorFormat) =>
        /\ report.made
        /\ report.newErrorsCount = getTotalErrorsCount(report.delta)
        /\ exitCode \in {0, 1}
        /\ (exitCode = 1) <=> (report.newErrorsCount > 0)
        /\ CoveredBy(invocation.stdin, disk) => exitCode = 0

C15_Witness ==
    /\ CheckEnded
    /\ CanRead(disk)
    /\ VersionOnDisk(disk) = CURRENT_BASELINE_VERSION
    /\ DOMAIN JSONparse(disk.text).errors # {}
    /\ ~CoveredBy(invocation.stdin, disk)
    /\ report.made
    /\ report.newErrorsCount = 1
    /\ exitCode = 1

\* C16: a check of the log the baseline was saved from, in either mode,
\* reports 0 new errors, exits with status 0 and reports the number of
\* diagnostics of the log as the size of the baseline, however many times it
\* is run.
C16_CheckOfSavedLogIsClean ==
    (/\ CheckEnded
     /\ invocation.errorFormat = "HUMAN"
     /\ saved.known
     /\ invocation.stdin = saved.log) =>
        /\ report.made
        /\ report.delta = EmptyMap
        /\ report.newErrorsCount = 0
        /\ report.oldErrorsCount = Len(Occurrences(saved.log))
        /\ exitCode = 0
        /\ disk = diskBefore

C16_Witness ==
    /\ CheckEnded
    /\ invocation.errorFormat = "HUMAN"
    /\ saved.known
    /\ saved.mode
    /\ invocation.stdin = saved.log
    /\ Len(Occurrences(saved.log)) = MaxCliLines
    /\ \E i, j \in DOMAIN Occurrences(saved.log) :
          Occurrences(saved.log)[i].message # Occurrences(saved.log)[j].message
    /\ report.made
    /\ report.oldErrorsCount = MaxCliLines
    /\ exitCode = 0

\* C17: for a baseline saved from a log a and a check of a log b, the
\* reported delta holds exactly the identities of b that occur more often in
\* b than in a (absent from a counting as 0), each with the excess as count.
C17_DeltaIsExcessOverSaved ==
    (/\ CheckEnded
     /\ invocation.errorFormat = "HUMAN"
     /\ invocation.stdin # <<>>
     /\ saved.known) =>
        LET a == Occurrences(saved.log)
            b == Occurrences(invocation.stdin)
            m == saved.mode
            ids == {Ident(b[i], m) : i \in DOMAIN b}
            excess(id) == Cardinality(IndicesOf(b, id, m))
                              - Cardinality(IndicesOf(a, id, m))
        IN  /\ report.made
            /\ \A id \in ids :
                  excess(id) > 0 =>
                      Cardinality({k \in DOMAIN report.delta :
                          /\ SummaryIdent(report.delta[k], m) = id
                          /\ report.delta[k].count = excess(id)}) = 1
            /\ \A k \in DOMAIN report.delta :
                  /\ SummaryIdent(report.delta[k], m) \in ids
                  /\ excess(SummaryIdent(report.delta[k], m)) > 0
                  /\ report.delta[k].count
                         = excess(SummaryIdent(report.delta[k], m))

C17_Witness ==
    /\ CheckEnded
    /\ invocation.errorFormat = "HUMAN"
    /\ saved.known
    /\ ~saved.mode
    /\ Len(Occurrences(saved.log)) = 1
    /\ Len(Occurrences(invocation.stdin)) = 2
    /\ Ident(Occurrences(invocation.stdin)[1], FALSE)
           = Ident(Occurrences(saved.log)[1], FALSE)
    /\ Ident(Occurrences(invocation.stdin)[2], FALSE)
           = Ident(Occurrences(saved.log)[1], FALSE)
    /\ report.made
    /\ \E k \in DOMAIN report.delta : report.delta[k].count = 1
    /\ exitCode = 1

\* an add process with a hash has run its action on a current baseline
AddRan ==
    /\ pc \in {"dispatched", "exited"}
    /\ invocation.cmd = "add"
    /\ invocation.hash # <<>>
    /\ CanRead(diskBefore)
    /\ VersionOnDisk(diskBefore) = CURRENT_BASELINE_VERSION

\* C18: addHashToBaseline(h, path) on a current baseline leaves the meta
\* fields and every entry under another key than h as they were, and the
\* document then has an entry under h with count 1 and the placeholder
\* '0000' as code, file and message.
C18_AddKeepsTheRest ==
    AddRan =>
        LET before == JSONparse(diskBefore.text)
            after == JSONparse(disk.text)
            h == invocation.hash
        IN  /\ after.meta = before.meta
            /\ DOMAIN after.errors = DOMAIN before.errors \cup {h}
            /\ \A k \in DOMAIN before.errors \ {h} :
                  after.errors[k] = before.errors[k]
            /\ after.errors[h].count = 1
            /\ after.errors[h].code = <<"0", "0", "0", "0">>
            /\ after.errors[h].file = <<"0", "0", "0", "0">>
            /\ after.errors[h].message = <<"0", "0", "0", "0">>

C18_Witness ==
    /\ AddRan
    /\ pc = "exited"
    /\ JSONparse(diskBefore.text).meta.ignoreMessages
    /\ Cardinality(DOMAIN JSONparse(diskBefore.text).errors) = 1
    /\ ~Has(JSONparse(diskBefore.text).errors, invocation.hash)
    /\ Cardinality(DOMAIN JSONparse(disk.text).errors) = 2

\* C19 as stated: after check reports an identity with hash h as new, add h
\* and the same check again no longer reports h, however often the identity
\* occurs in the input.
C19_AddedHashNotReportedAgain ==
    (script.step = 4 /\ pc = "exited" /\ script.reported) =>
        /\ report.made
        /\ ~Has(report.delta, script.hash)

\* the second check reports the added hash again, with one occurrence less
C19_Witness ==
    /\ script.step = 4
    /\ pc = "exited"
    /\ script.reported
    /\ script.count = 2
    /\ report.made
    /\ Has(report.delta, script.hash)
    /\ report.delta[script.hash].count = 1
    /\ exitCode = 1

\* C20 as stated: clear on an existing baseline file removes it, writes
\* nothing to stderr and exits with status 0; a check with non-empty input
\* that follows fails with the unable-to-read error.
C20_ClearRemovesQuietly ==
    /\ (pc = "exited" /\ invocation.cmd = "clear" /\ diskBefore.exists) =>
          /\ ~disk.exists
          /\ stderr = <<>>
          /\ exitCode = 0
    /\ (CheckEnded /\ invocation.stdin # <<>> /\ ~disk.exists) =>
          /\ exitCode = 1
          /\ stderr = <<"UnableToRead">>

\* clear removed the file and then failed on removing it again
C20_Witness ==
    /\ pc = "exited"
    /\ invocation.cmd = "clear"
    /\ ~invocation.tty
    /\ diskBefore.exists
    /\ ~disk.exists
    /\ stdout = <<"Removed">>
    /\ stderr = <<"ENOENT">>
    /\ exitCode = 1

\* C21 as stated: the structured report has exactly one entry per summary of
\* the delta, with the key of the summary as fingerprint, its file as
\* location path and its line as begin line.
C21_FingerprintIsIdentityHash ==
    pc = "formatted" =>
        /\ DOMAIN gitlab = DOMAIN result
        /\ \A h \in DOMAIN result :
              /\ gitlab[h].fingerprint = h
              /\ gitlab[h].path = result[h].file
              /\ gitlab[h].begin = result[h].line

\* two summaries are reported under the same fingerprint
C21_Witness ==
    /\ pc = "formatted"
    /\ Cardinality(DOMAIN result) = 2
    /\ \A h \in DOMAIN result :
          /\ gitlab[h].fingerprint = UnknownFingerprint
          /\ gitlab[h].path = result[h].file
          /\ gitlab[h].begin = result[h].line

\* the occurrences of a log that a summary stands for under a mode, as
\* places, in input order
PlacesOf(log, summary, ignore) ==
    LET occ == Occurrences(log)
        of(e) == /\ e.file = summary.file
                 /\ e.code = summary.code
                 /\ ignore \/ (HasMessage(summary)
                                  /\ e.message = summary.message)
    IN  Places(SelectSeq(occ, of))

\* C22: for each summary of the delta, toHumanReadableText lists exactly the
\* occurrences stored under the summary's file that have its code and,
\* unless messages are ignored, its message, in encounter order; the Message
\* line is there only when the summary has a message.
C22_BlockListsMatchingOccurrences ==
    pc = "formatted" =>
        /\ DOMAIN humanText = DOMAIN result
        /\ \A h \in DOMAIN result :
              /\ humanText[h].places
                     = PlacesOf(newLog, result[h], ignoreMessages)
              /\ humanText[h].current = Len(humanText[h].places)
              /\ ("Message" \in DOMAIN humanText[h]) <=> HasMessage(result[h])
              /\ HasMessage(result[h]) =>
                     humanText[h].Message = result[h].message

\* a file with occurrences of two identities, one of them new
C22_Witness ==
    /\ pc = "formatted"
    /\ ~ignoreMessages
    /\ Cardinality(DOMAIN result) = 1
    /\ \A h \in DOMAIN result :
          /\ Len(humanText[h].places) = 1
          /\ Len(newParsed.specificErrorsMap[result[h].file]) = 2
          /\ "Message" \in DOMAIN humanText[h]

\* the occurrences a map's counts stand for, one pair per occurrence
Units(errorMap) ==
    UNION {{<<h, i>> : i \in 1..errorMap[h].count} : h \in DOMAIN errorMap}

\* C23: getTotalErrorsCount(M) is the sum of the count fields of the
\* summaries of M, and 0 for the empty map.
C23_TotalIsSumOfCounts ==
    pc = "formatted" =>
        /\ total = Cardinality(Units(result))
        /\ result = EmptyMap => total = 0

C23_Witness ==
    /\ pc = "formatted"
    /\ Cardinality(DOMAIN result) = 1
    /\ total = MaxRunLines
    /\ total > 1

\* the text of a line before its first '('
BeforeFirstParen(line) ==
    LET first == CHOOSE i \in 1..Len(line) :
                     /\ line[i] = "("
                     /\ \A j \in 1..(i - 1) : line[j] # "("
    IN  SubSeq(line, 1, first - 1)

\* C24 as stated: for every line that matches, the parsed file is the text
\* before the first '(' of the line, also when the message holds text of the
\* form '(<digits>,<digits>): error <word>: '.
C24_FileIsTextBeforeFirstParen ==
    pc = "parsed" =>
        LET ls == MatchingLines(errorLog)
        IN  /\ \A i \in DOMAIN ls :
                  SpecificErrorOf(ls[i]).file = BeforeFirstParen(ls[i])
            /\ DOMAIN parsed.specificErrorsMap
                   = {BeforeFirstParen(ls[i]) : i \in DOMAIN ls}

\* a line whose message ends like a diagnostic is filed under everything
\* before the last '('
C24_Witness ==
    /\ pc = "parsed"
    /\ Len(MatchingLines(errorLog)) = 1
    /\ BeforeFirstParen(MatchingLines(errorLog)[1]) = <<"a">>
    /\ DOMAIN parsed.specificErrorsMap
           = {Diagnostic(<<"a">>, <<"1">>, <<"1">>, <<"T", "1">>, <<"x">>)}
    /\ \E k \in DOMAIN parsed.errorSummaryMap :
          /\ parsed.errorSummaryMap[k].line = 2
          /\ parsed.errorSummaryMap[k].code = <<"T", "2">>

\* C25: for every file f, specificErrorsMap[f] is the subsequence of the
\* matched occurrences whose file is f, in input order; no key maps to an
\* empty sequence, and the stored occurrences are as many as the matched
\* lines.
C25_OccurrencesPerFileInOrder ==
    pc = "parsed" =>
        LET occ == Occurrences(errorLog)
            sem == parsed.specificErrorsMap
        IN  /\ DOMAIN sem = {occ[i].file : i \in DOMAIN occ}
            /\ \A f \in DOMAIN sem :
                  LET inFile(e) == e.file = f
                  IN  /\ sem[f] = SelectSeq(occ, inFile)
                      /\ sem[f] # <<>>
            /\ Cardinality(UNION {{<<f, i>> : i \in DOMAIN sem[f]} :
                                      f \in DOMAIN sem}) = Len(occ)

\* two files, one of them with two occurrences around one of the other
C25_Witness ==
    /\ pc = "parsed"
    /\ Len(Occurrences(errorLog)) = 3
    /\ Occurrences(errorLog)[1].file = <<"a">>
    /\ Occurrences(errorLog)[2].file = <<"b">>
    /\ Occurrences(errorLog)[3].file = <<"a">>
    /\ Occurrences(errorLog)[1].line # Occurrences(errorLog)[3].line
    /\ Len(parsed.specificErrorsMap[<<"a">>]) = 2
    /\ Len(parsed.specificErrorsMap[<<"b">>]) = 1

\* C26: in every check that reaches the diff, the mode the input is parsed
\* and hashed with is the ignoreMessages flag of the baseline document,
\* whatever the --ignoreMessages flag of the check is.
C26_CheckHashesWithBaselineMode ==
    (CheckEnded /\ report.made) =>
        LET mode == readBaselineErrorsFile(disk).meta.ignoreMessages
            occ == Occurrences(invocation.stdin)
        IN  /\ ignoreMessages = mode
            /\ errorLog = invocation.stdin
            /\ DOMAIN parsed.errorSummaryMap
                   = {KeyOf(occ[i], mode) : i \in DOMAIN occ}
            /\ \A h \in DOMAIN report.delta :
                  \E i \in DOMAIN occ : h = KeyOf(occ[i], mode)

\* a check with --ignoreMessages against a baseline saved without it: the
\* two messages of the input stay two identities
C26_Witness ==
    /\ CheckEnded
    /\ report.made
    /\ invocation.ignoreMessages
    /\ ~readBaselineErrorsFile(disk).meta.ignoreMessages
    /\ ~ignoreMessages
    /\ Cardinality(DOMAIN parsed.errorSummaryMap) = 2
    /\ Cardinality(DOMAIN report.delta) = 2

\* C27: only save and add write the baseline document and only clear deletes
\* it: within a process, check leaves the file as it found it in every
\* outcome, a file that changed and is still there was written by save or
\* add, a file that went away was removed by clear, and a document of an
\* older version is left as it is by everything but save and clear.
C27_CheckNeverWrites ==
    pc \in {"started", "dispatched", "exited"} =>
        /\ invocation.cmd = "check" => disk = diskBefore
        /\ (disk # diskBefore /\ disk.exists) =>
               invocation.cmd \in {"save", "add"}
        /\ (diskBefore.exists /\ ~disk.exists) => invocation.cmd = "clear"
        /\ (/\ CanRead(diskBefore)
            /\ VersionOnDisk(diskBefore) < CURRENT_BASELINE_VERSION
            /\ disk.exists) =>
               \/ disk = diskBefore
               \/ /\ invocation.cmd = "save"
                  /\ VersionOnDisk(disk) = CURRENT_BASELINE_VERSION

\* a check with diagnostics against a stale document ends in failure and the
\* stale document is still there
C27_Witness ==
    /\ CheckEnded
    /\ Len(Occurrences(invocation.stdin)) = MaxCliLines
    /\ diskBefore = StaleFile
    /\ disk = StaleFile
    /\ exitCode = 1
    /\ ~report.made
    /\ runs = 2

\* C28: a write of the baseline document is atomic: a reader of the path
\* that runs along with the write gets the complete document the path held
\* before or the complete new document, never an empty or partly written
\* file.
C28_WriteIsAtomic ==
    observed.read =>
        observed.file \in
            { IF pc = "start" THEN disk ELSE diskBefore,
              writeTypeScriptErrorsToFile(summaryMap, ignoreMessages) }

\* the reader got a file of length 0 where a current document was and a
\* current document is again
C28_Witness ==
    /\ pc = "written"
    /\ observed.read
    /\ observed.file = TruncatedFile
    /\ ~observed.parses
    /\ CanRead(diskBefore)
    /\ isBaselineVersionCurrent(readBaselineErrorsFile(diskBefore))
    /\ summaryMap # EmptyMap
    /\ disk = writeTypeScriptErrorsToFile(summaryMap, ignoreMessages)

\* C29: the action of a command runs exactly once in a process, and when
\* standard input is not a terminal it runs after standard input was read to
\* its end: one add is one read-modify-write of the baseline, one clear is
\* one removal.
C29_ActionRunsOnce ==
    /\ pc = "exited" => runs = 1
    /\ (pc = "dispatched" /\ ~invocation.tty) => runs = 0

\* an add, standard input a pipe: the action ran before standard input was
\* read and again at its end, two read-modify-writes of the baseline
C29_Witness ==
    /\ pc = "exited"
    /\ invocation.cmd = "add"
    /\ invocation.hash # <<>>
    /\ ~invocation.tty
    /\ CanRead(diskBefore)
    /\ disk # diskBefore
    /\ Has(JSONparse(disk.text).errors, invocation.hash)
    /\ runs = 2
    /\ exitCode = 0

\* C30: add never weakens the baseline: for a current baseline, a hash h and
\* an input x, the total of new errors check(x) reports after add(h) is at
\* most the total it reported before, also when h is a key of the baseline
\* with a count above 1.
C30_AddNeverWeakens ==
    (script.step = 4 /\ pc = "exited") =>
        /\ report.made
        /\ report.newErrorsCount <= script.before

\* the baseline held h with count 2 and the check of the saved log was
\* clean; after add h the same check reports one new error
C30_Witness ==
    /\ script.step = 4
    /\ pc = "exited"
    /\ ~script.reported
    /\ script.before = 0
    /\ Len(Occurrences(script.log)) = 2
    /\ report.made
    /\ Has(report.delta, script.hash)
    /\ report.newErrorsCount = 1
    /\ JSONparse(disk.text).errors[script.hash].count = 1
    /\ exitCode = 1

====
